---- MODULE Spec2Model ----
(***************************************************************************)
(* Model of the company-deduplicator core: the normalizer, the four-layer  *)
(* matcher (findAllMatches), configuration validation and the greedy       *)
(* clustering pass of CompanyDeduplicator.findDuplicates.                  *)
(*                                                                         *)
(* Strings are sequences of characters; a character is a one-element name  *)
(* such as "a", " " or "e_acute".  A JavaScript number that is a score is  *)
(* kept as an exact fraction [n, d]; thresholds and the confidences        *)
(* reported by makeMatch (three decimals) are integers in thousandths.     *)
(* NaN is the only non-finite number the model keeps: every comparison     *)
(* with it is false, as in JavaScript.                                     *)
(***************************************************************************)
EXTENDS Integers, Sequences, FiniteSets, TLC

(***************************************************************************)
(* Characters and the JavaScript string primitives the code calls.         *)
(***************************************************************************)
LowerLetters ==
  {"a", "b", "c", "d", "e", "f", "g", "h", "i", "j", "k", "l", "m", "n", "o", "p",
   "q", "r", "s", "t", "u", "v", "w", "x", "y", "z"}
UpperLetters == {"A", "B", "C", "E", "O"}
Digits == {"1", "2"}
Whitespace == {" ", "\t"}
Punctuation == {"!", "."}
Accented == {"e_acute", "E_ACUTE"}
CombiningMarks == {"comb_acute"}
Chars ==
  LowerLetters \cup UpperLetters \cup Digits \cup Whitespace \cup Punctuation
    \cup Accented \cup CombiningMarks \cup {"_", "o_slash"}

\* String.prototype.toLowerCase, one character
LowerChar(c) ==
  CASE c = "A" -> "a"
    [] c = "B" -> "b"
    [] c = "C" -> "c"
    [] c = "E" -> "e"
    [] c = "O" -> "o"
    [] c = "E_ACUTE" -> "e_acute"
    [] OTHER -> c

toLowerCase(s) == [i \in 1..Len(s) |-> LowerChar(s[i])]

\* the regular-expression classes \w, \s and \d
IsWordChar(c) == c \in LowerLetters \cup UpperLetters \cup Digits \cup {"_"}
IsSpaceChar(c) == c \in Whitespace
IsDigitChar(c) == c \in Digits

RECURSIVE TrimStart(_)
TrimStart(s) ==
  IF s # <<>> /\ IsSpaceChar(Head(s)) THEN TrimStart(Tail(s)) ELSE s

RECURSIVE TrimEnd(_)
TrimEnd(s) ==
  IF s # <<>> /\ IsSpaceChar(s[Len(s)])
    THEN TrimEnd(SubSeq(s, 1, Len(s) - 1))
    ELSE s

\* String.prototype.trim
trim(s) == TrimEnd(TrimStart(s))

\* String.prototype.normalize('NFD'), one character
NFD(c) ==
  CASE c = "e_acute" -> <<"e", "comb_acute">>
    [] c = "E_ACUTE" -> <<"E", "comb_acute">>
    [] OTHER -> <<c>>

RECURSIVE Decompose(_)
Decompose(s) == IF s = <<>> THEN <<>> ELSE NFD(Head(s)) \o Decompose(Tail(s))

IsCombining(c) == c \in CombiningMarks
NotCombining(c) == ~IsCombining(c)

removeAccents(text) == SelectSeq(Decompose(text), NotCombining)

NotDigit(c) == ~IsDigitChar(c)

\* .replace(/\d+/g, '')
StripDigits(s) == SelectSeq(s, NotDigit)

\* .replace(/[^\w\s]/g, ' ')
ReplaceSpecial(s) ==
  [i \in 1..Len(s) |-> IF IsWordChar(s[i]) \/ IsSpaceChar(s[i]) THEN s[i] ELSE " "]

\* .replace(/\s+/g, ' ')
RECURSIVE CollapseSpaces(_)
CollapseSpaces(s) ==
  IF s = <<>> THEN <<>>
  ELSE IF IsSpaceChar(Head(s))
    THEN <<" ">> \o CollapseSpaces(TrimStart(s))
    ELSE <<Head(s)>> \o CollapseSpaces(Tail(s))

\* String.prototype.split(' '): the pieces between single spaces, empty ones kept
RECURSIVE SplitFrom(_, _)
SplitFrom(s, word) ==
  IF s = <<>> THEN <<word>>
  ELSE IF Head(s) = " "
    THEN <<word>> \o SplitFrom(Tail(s), <<>>)
    ELSE SplitFrom(Tail(s), Append(word, Head(s)))

split(s) == SplitFrom(s, <<>>)

\* Array.prototype.join(' ')
RECURSIVE join(_)
join(words) ==
  IF words = <<>> THEN <<>>
  ELSE IF Len(words) = 1 THEN words[1]
  ELSE words[1] \o <<" ">> \o join(Tail(words))

Range(s) == {s[i] : i \in 1..Len(s)}

(***************************************************************************)
(* The normalizer.                                                         *)
(***************************************************************************)
BUSINESS_SUFFIXES ==
  {<<"l", "t", "d">>,
   <<"l", "i", "m", "i", "t", "e", "d">>,
   <<"i", "n", "c">>,
   <<"i", "n", "c", "o", "r", "p", "o", "r", "a", "t", "e", "d">>,
   <<"c", "o", "r", "p">>,
   <<"c", "o", "r", "p", "o", "r", "a", "t", "i", "o", "n">>,
   <<"c", "o">>,
   <<"c", "o", "m", "p", "a", "n", "y">>,
   <<"l", "l", "c">>,
   <<"l", "i", "m", "i", "t", "e", "d", " ", "l", "i", "a", "b", "i", "l", "i", "t", "y", " ", "c", "o", "m", "p", "a", "n", "y">>,
   <<"p", "l", "c">>,
   <<"p", "u", "b", "l", "i", "c", " ", "l", "i", "m", "i", "t", "e", "d", " ", "c", "o", "m", "p", "a", "n", "y">>,
   <<"s", "t", "u", "d", "i", "o">>,
   <<"s", "t", "u", "d", "i", "o", "s">>,
   <<"g", "a", "m", "e", "s">>,
   <<"e", "n", "t", "e", "r", "t", "a", "i", "n", "m", "e", "n", "t">>,
   <<"i", "n", "t", "e", "r", "a", "c", "t", "i", "v", "e">>,
   <<"d", "i", "g", "i", "t", "a", "l">>,
   <<"s", "o", "f", "t", "w", "a", "r", "e">>,
   <<"t", "e", "c", "h", "n", "o", "l", "o", "g", "i", "e", "s">>,
   <<"t", "e", "c", "h">>,
   <<"s", "y", "s", "t", "e", "m", "s">>,
   <<"s", "o", "l", "u", "t", "i", "o", "n", "s">>,
   <<"s", "e", "r", "v", "i", "c", "e", "s">>,
   <<"g", "r", "o", "u", "p">>,
   <<"h", "o", "l", "d", "i", "n", "g", "s">>,
   <<"v", "e", "n", "t", "u", "r", "e", "s">>,
   <<"p", "a", "r", "t", "n", "e", "r", "s">>,
   <<"a", "s", "s", "o", "c", "i", "a", "t", "e", "s">>,
   <<"e", "n", "t", "e", "r", "p", "r", "i", "s", "e", "s">>}

NotSuffix(word) == toLowerCase(word) \notin BUSINESS_SUFFIXES

\* only a suffix word that ends the text is removed
removeSuffixesLastOnly(text) ==
  LET words == split(text)
  IN  IF NotSuffix(words[Len(words)]) THEN text
      ELSE trim(join(SubSeq(words, 1, Len(words) - 1)))

removeSuffixes(text) == trim(join(SelectSeq(split(text), NotSuffix)))

\* the steps in another order: suffix words removed before special characters
\* are replaced
normalizeCompanyNameSuffixesFirst(name, config) ==
  LET lowered == trim(toLowerCase(name))
      accents == IF config.handleAccents THEN removeAccents(lowered) ELSE lowered
      numbers == IF config.removeNumbers THEN StripDigits(accents) ELSE accents
      suffixes == IF config.removeSuffixes THEN removeSuffixes(numbers) ELSE numbers
  IN  trim(CollapseSpaces(ReplaceSpecial(suffixes)))

normalizeCompanyName(name, config) ==
  LET lowered == trim(toLowerCase(name))
      accents == IF config.handleAccents THEN removeAccents(lowered) ELSE lowered
      numbers == IF config.removeNumbers THEN StripDigits(accents) ELSE accents
      cleaned == trim(CollapseSpaces(ReplaceSpecial(numbers)))
  IN  IF config.removeSuffixes THEN removeSuffixes(cleaned) ELSE cleaned

NonEmpty(token) == Len(token) > 0

\* the pieces of split(' ') as a set, empty pieces kept
TokenSetWithEmpty(normalizedName) == Range(split(normalizedName))

\* the set built from extractTokens(name): the order of the sorted array is lost in it
TokenSet(normalizedName) == Range(SelectSeq(split(normalizedName), NonEmpty))

\* the share of the first name's tokens that the second name has
calculateTokenOverlapOfFirst(name1, name2) ==
  LET tokens1 == Range(SelectSeq(split(name1), NonEmpty))
      tokens2 == Range(SelectSeq(split(name2), NonEmpty))
  IN  IF Cardinality(tokens1) > 0
        THEN [n |-> Cardinality(tokens1 \cap tokens2), d |-> Cardinality(tokens1)]
        ELSE [n |-> 0, d |-> 1]

\* a JavaScript quotient is kept exact, as numerator n over denominator d
calculateTokenOverlap(name1, name2) ==
  LET tokens1 == TokenSet(name1)
      tokens2 == TokenSet(name2)
      intersection == tokens1 \cap tokens2
      union == tokens1 \cup tokens2
  IN  IF Cardinality(union) > 0
        THEN [n |-> Cardinality(intersection), d |-> Cardinality(union)]
        ELSE [n |-> 0, d |-> 1]

GEOGRAPHIC_TERMS ==
  {<<"u", "s", "a">>,
   <<"u", "s">>,
   <<"a", "m", "e", "r", "i", "c", "a">>,
   <<"a", "m", "e", "r", "i", "c", "a", "n">>,
   <<"c", "a", "n", "a", "d", "a">>,
   <<"c", "a", "n", "a", "d", "i", "a", "n">>,
   <<"u", "k">>,
   <<"b", "r", "i", "t", "a", "i", "n">>,
   <<"b", "r", "i", "t", "i", "s", "h">>,
   <<"e", "u", "r", "o", "p", "e">>,
   <<"e", "u", "r", "o", "p", "e", "a", "n">>,
   <<"a", "s", "i", "a">>,
   <<"a", "s", "i", "a", "n">>,
   <<"j", "a", "p", "a", "n">>,
   <<"j", "a", "p", "a", "n", "e", "s", "e">>,
   <<"c", "h", "i", "n", "a">>,
   <<"c", "h", "i", "n", "e", "s", "e">>,
   <<"f", "r", "a", "n", "c", "e">>,
   <<"f", "r", "e", "n", "c", "h">>,
   <<"g", "e", "r", "m", "a", "n", "y">>,
   <<"g", "e", "r", "m", "a", "n">>,
   <<"i", "t", "a", "l", "y">>,
   <<"i", "t", "a", "l", "i", "a", "n">>,
   <<"s", "p", "a", "i", "n">>,
   <<"s", "p", "a", "n", "i", "s", "h">>,
   <<"m", "o", "n", "t", "r", "e", "a", "l">>,
   <<"t", "o", "r", "o", "n", "t", "o">>,
   <<"v", "a", "n", "c", "o", "u", "v", "e", "r">>,
   <<"l", "o", "n", "d", "o", "n">>,
   <<"p", "a", "r", "i", "s">>,
   <<"b", "e", "r", "l", "i", "n">>,
   <<"t", "o", "k", "y", "o">>,
   <<"s", "h", "a", "n", "g", "h", "a", "i">>,
   <<"e", "m", "e", "a">>,
   <<"b", "e", "n", "e", "l", "u", "x">>,
   <<"o", "e", "c", "d">>}

\* new Set(name.toLowerCase().split(' ')): empty pieces are kept
SplitSet(name) == Range(split(toLowerCase(name)))

isOnlyGeographic(diffs) ==
  diffs # {} /\ \A diff \in diffs : toLowerCase(diff) \in GEOGRAPHIC_TERMS

isLikelyGeographicVariant(name1, name2) ==
  LET tokens1 == SplitSet(name1)
      tokens2 == SplitSet(name2)
      diff1 == tokens1 \ tokens2
      diff2 == tokens2 \ tokens1
  IN  isOnlyGeographic(diff1) \/ isOnlyGeographic(diff2)

(***************************************************************************)
(* Helper algorithms of the matcher.                                       *)
(***************************************************************************)
Min2(x, y) == IF x <= y THEN x ELSE y
Max2(x, y) == IF x >= y THEN x ELSE y

\* a row in which a deletion costs 2
RECURSIVE LevenshteinRowCostlyDeletion(_, _, _, _)
LevenshteinRowCostlyDeletion(prev, ai, b, row) ==
  IF Len(row) = Len(b) + 1 THEN row
  ELSE LET j == Len(row)
           cost == IF ai = b[j] THEN 0 ELSE 1
       IN  LevenshteinRowCostlyDeletion(prev, ai, b,
             Append(row, Min2(Min2(prev[j + 1] + 2, row[j] + 1), prev[j] + cost)))

\* one row of the matrix: row holds columns 0..Len(row)-1 of line i
RECURSIVE LevenshteinRow(_, _, _, _)
LevenshteinRow(prev, ai, b, row) ==
  IF Len(row) = Len(b) + 1 THEN row
  ELSE LET j == Len(row)
           cost == IF ai = b[j] THEN 0 ELSE 1
       IN  LevenshteinRow(prev, ai, b,
             Append(row, Min2(Min2(prev[j + 1] + 1, row[j] + 1), prev[j] + cost)))

RECURSIVE LevenshteinFrom(_, _, _, _)
LevenshteinFrom(a, b, i, prev) ==
  IF i > Len(a) THEN prev[Len(b) + 1]
  ELSE LevenshteinFrom(a, b, i + 1, LevenshteinRow(prev, a[i], b, <<i>>))

calculateLevenshteinDistance(a, b) ==
  IF a = b THEN 0
  ELSE IF Len(a) = 0 THEN Len(b)
  ELSE IF Len(b) = 0 THEN Len(a)
  ELSE LevenshteinFrom(a, b, 1, [j \in 1..(Len(b) + 1) |-> j - 1])

calculateSimilarity(a, b) ==
  LET maxLen == Max2(Len(a), Len(b))
  IN  IF maxLen = 0 THEN [n |-> 1, d |-> 1]
      ELSE [n |-> maxLen - calculateLevenshteinDistance(a, b), d |-> maxLen]

(***************************************************************************)
(* Numbers of a configuration.  Thresholds are in thousandths (0.85 is     *)
(* Num(850)); maxResultsPerCompany is in units.                            *)
(***************************************************************************)
NaN == [nan |-> TRUE, v |-> 0]
Num(k) == [nan |-> FALSE, v |-> k]

\* v < 0 and v > 1 on a threshold, v <= 0 on a count
LessThanZero(x) == ~x.nan /\ x.v < 0
GreaterThanOne(x) == ~x.nan /\ x.v > 1000
AtMostZero(x) == ~x.nan /\ x.v <= 0

\* score > threshold
ScoreAbove(score, threshold) ==
  score.d # 0 /\ ~threshold.nan /\ score.n * 1000 > threshold.v * score.d

\* score >= threshold, the score an exact quotient; 0 / 0 is NaN
ScoreAtLeast(score, threshold) ==
  score.d # 0 /\ ~threshold.nan /\ score.n * 1000 >= threshold.v * score.d

\* confidence >= threshold, the confidence in thousandths
ConfidenceAtLeast(confidence, threshold) ==
  ~threshold.nan /\ confidence >= threshold.v

\* Number(confidence.toFixed(3)), in thousandths: the nearest thousandth, the
\* larger one when the quotient lies exactly halfway
ToFixed3(score) == (2000 * score.n + score.d) \div (2 * score.d)

(***************************************************************************)
(* config.ts                                                               *)
(***************************************************************************)
CONFIG_PRESETS ==
  [conservative |->
     [highSimilarityThreshold |-> Num(920), tokenMatchThreshold |-> Num(880),
      partialMatchThreshold |-> Num(850), removeSuffixes |-> TRUE,
      handleAccents |-> TRUE, removeNumbers |-> FALSE,
      minConfidenceScore |-> Num(850), maxResultsPerCompany |-> Num(10)],
   balanced |->
     [highSimilarityThreshold |-> Num(850), tokenMatchThreshold |-> Num(800),
      partialMatchThreshold |-> Num(700), removeSuffixes |-> TRUE,
      handleAccents |-> TRUE, removeNumbers |-> FALSE,
      minConfidenceScore |-> Num(750), maxResultsPerCompany |-> Num(10)],
   aggressive |->
     [highSimilarityThreshold |-> Num(780), tokenMatchThreshold |-> Num(700),
      partialMatchThreshold |-> Num(600), removeSuffixes |-> TRUE,
      handleAccents |-> TRUE, removeNumbers |-> FALSE,
      minConfidenceScore |-> Num(600), maxResultsPerCompany |-> Num(15)]]

DEFAULT_CONFIG == CONFIG_PRESETS.balanced

\* { ...CONFIG_PRESETS[preset], ...overrides }
createConfig(preset, overrides) ==
  [f \in DOMAIN CONFIG_PRESETS[preset] |->
     IF \E k \in 1..Len(overrides) : overrides[k].field = f
       THEN overrides[CHOOSE k \in 1..Len(overrides) : overrides[k].field = f].value
       ELSE CONFIG_PRESETS[preset][f]]

between0and1(v, field) ==
  IF LessThanZero(v) \/ GreaterThanOne(v) THEN <<field>> ELSE <<>>

\* the error messages, each named by the field it is about
validateConfig(cfg) ==
  between0and1(cfg.highSimilarityThreshold, "highSimilarityThreshold")
    \o between0and1(cfg.tokenMatchThreshold, "tokenMatchThreshold")
    \o between0and1(cfg.partialMatchThreshold, "partialMatchThreshold")
    \o between0and1(cfg.minConfidenceScore, "minConfidenceScore")
    \o (IF AtMostZero(cfg.maxResultsPerCompany)
          THEN <<"maxResultsPerCompany">> ELSE <<>>)

(***************************************************************************)
(* The matching layers.                                                    *)
(***************************************************************************)
makeMatch(original, candidate, normalizedOriginal, normalizedCandidate, confidence, method) ==
  [original |-> original, candidate |-> candidate,
   confidence |-> ToFixed3(confidence), method |-> method,
   normalizedOriginal |-> normalizedOriginal,
   normalizedCandidate |-> normalizedCandidate]

\* the exact layer without the test candidate === original
RECURSIVE findExactMatchesNoSelfSkip(_, _, _)
findExactMatchesNoSelfSkip(original, candidates, config) ==
  IF candidates = <<>> THEN <<>>
  ELSE
    LET candidate == Head(candidates)
        rest == findExactMatchesNoSelfSkip(original, Tail(candidates), config)
        normalizedOriginal == normalizeCompanyName(original, config)
        normalizedCandidate == normalizeCompanyName(candidate, config)
    IN  IF normalizedCandidate = normalizedOriginal
          THEN <<makeMatch(original, candidate, normalizedOriginal,
                           normalizedCandidate, [n |-> 1, d |-> 1],
                           "exact_after_normalization")>> \o rest
          ELSE rest

RECURSIVE findExactMatches(_, _, _)
findExactMatches(original, candidates, config) ==
  IF candidates = <<>> THEN <<>>
  ELSE
    LET candidate == Head(candidates)
        rest == findExactMatches(original, Tail(candidates), config)
        normalizedOriginal == normalizeCompanyName(original, config)
        normalizedCandidate == normalizeCompanyName(candidate, config)
    IN  IF candidate = original THEN rest
        ELSE IF normalizedCandidate = normalizedOriginal
          THEN <<makeMatch(original, candidate, normalizedOriginal,
                           normalizedCandidate, [n |-> 1, d |-> 1],
                           "exact_after_normalization")>> \o rest
          ELSE rest

\* the layer with score > threshold in place of score >= threshold
RECURSIVE findHighSimilarityMatchesStrict(_, _, _)
findHighSimilarityMatchesStrict(original, candidates, config) ==
  IF candidates = <<>> THEN <<>>
  ELSE
    LET candidate == Head(candidates)
        rest == findHighSimilarityMatchesStrict(original, Tail(candidates), config)
        normalizedOriginal == normalizeCompanyName(original, config)
        normalizedCandidate == normalizeCompanyName(candidate, config)
        score == calculateSimilarity(normalizedOriginal, normalizedCandidate)
    IN  IF candidate = original THEN rest
        ELSE IF ScoreAbove(score, config.highSimilarityThreshold)
          THEN <<makeMatch(original, candidate, normalizedOriginal,
                           normalizedCandidate, score, "high_similarity")>> \o rest
          ELSE rest

RECURSIVE findHighSimilarityMatches(_, _, _)
findHighSimilarityMatches(original, candidates, config) ==
  IF candidates = <<>> THEN <<>>
  ELSE
    LET candidate == Head(candidates)
        rest == findHighSimilarityMatches(original, Tail(candidates), config)
        normalizedOriginal == normalizeCompanyName(original, config)
        normalizedCandidate == normalizeCompanyName(candidate, config)
        score == calculateSimilarity(normalizedOriginal, normalizedCandidate)
    IN  IF candidate = original THEN rest
        ELSE IF ScoreAtLeast(score, config.highSimilarityThreshold)
          THEN <<makeMatch(original, candidate, normalizedOriginal,
                           normalizedCandidate, score, "high_similarity")>> \o rest
          ELSE rest

RECURSIVE findTokenMatches(_, _, _)
findTokenMatches(original, candidates, config) ==
  IF candidates = <<>> THEN <<>>
  ELSE
    LET candidate == Head(candidates)
        rest == findTokenMatches(original, Tail(candidates), config)
        normalizedOriginal == normalizeCompanyName(original, config)
        normalizedCandidate == normalizeCompanyName(candidate, config)
        overlap == calculateTokenOverlap(normalizedOriginal, normalizedCandidate)
    IN  IF candidate = original THEN rest
        ELSE IF ScoreAtLeast(overlap, config.tokenMatchThreshold)
          THEN <<makeMatch(original, candidate, normalizedOriginal,
                           normalizedCandidate, overlap, "token_match")>> \o rest
          ELSE rest

\* a test that every pair of strings passes
includesAlways(longer, shorter) == TRUE

\* String.prototype.includes
includes(longer, shorter) ==
  \E k \in 0..(Len(longer) - Len(shorter)) :
    SubSeq(longer, k + 1, k + Len(shorter)) = shorter

RECURSIVE findPartialMatches(_, _, _)
findPartialMatches(original, candidates, config) ==
  IF candidates = <<>> THEN <<>>
  ELSE
    LET candidate == Head(candidates)
        rest == findPartialMatches(original, Tail(candidates), config)
        normalizedOriginal == normalizeCompanyName(original, config)
        normalizedCandidate == normalizeCompanyName(candidate, config)
        shorter == IF Len(normalizedOriginal) <= Len(normalizedCandidate)
                     THEN normalizedOriginal ELSE normalizedCandidate
        longer == IF shorter = normalizedOriginal
                    THEN normalizedCandidate ELSE normalizedOriginal
        confidence == [n |-> Len(shorter), d |-> Len(longer)]
    IN  IF candidate = original THEN rest
        ELSE IF includes(longer, shorter)
                  /\ ScoreAtLeast(confidence, config.partialMatchThreshold)
          THEN <<makeMatch(original, candidate, normalizedOriginal,
                           normalizedCandidate, confidence, "partial_match")>> \o rest
          ELSE rest

\* every match kept, none replacing another
bestMapSetKeepsAll(map, match) == Append(map, match)

\* the first match of a candidate kept, whatever comes later
bestMapSetKeepsFirst(map, match) ==
  IF \E k \in 1..Len(map) : map[k].candidate = match.candidate
    THEN map
    ELSE Append(map, match)

\* bestMap.set with >= in place of >: at equal confidence the later match wins
RECURSIVE bestMapSetLaterWinsTies(_, _)
bestMapSetLaterWinsTies(map, match) ==
  IF map = <<>> THEN <<match>>
  ELSE IF Head(map).candidate = match.candidate
    THEN IF match.confidence >= Head(map).confidence
           THEN <<match>> \o Tail(map)
           ELSE map
    ELSE <<Head(map)>> \o bestMapSetLaterWinsTies(Tail(map), match)

\* bestMap.set(match.candidate, match): a Map keeps the place of a key it already has
RECURSIVE bestMapSet(_, _)
bestMapSet(map, match) ==
  IF map = <<>> THEN <<match>>
  ELSE IF Head(map).candidate = match.candidate
    THEN IF match.confidence > Head(map).confidence
           THEN <<match>> \o Tail(map)
           ELSE map
    ELSE <<Head(map)>> \o bestMapSet(Tail(map), match)

\* the loop over combined; the result is Array.from(bestMap.values())
RECURSIVE bestMapOf(_, _)
bestMapOf(combined, map) ==
  IF combined = <<>> THEN map
  ELSE bestMapOf(Tail(combined), bestMapSet(map, Head(combined)))

\* Array.prototype.sort((a, b) => b.confidence - a.confidence), a stable sort
RECURSIVE InsertByConfidence(_, _)
InsertByConfidence(sorted, match) ==
  IF sorted = <<>> THEN <<match>>
  ELSE IF Head(sorted).confidence >= match.confidence
    THEN <<Head(sorted)>> \o InsertByConfidence(Tail(sorted), match)
    ELSE <<match>> \o sorted

\* the array left in the order it has
sortByConfidenceKeepsOrder(matches, sorted) == sorted \o matches

RECURSIVE sortByConfidence(_, _)
sortByConfidence(matches, sorted) ==
  IF matches = <<>> THEN sorted
  ELSE sortByConfidence(Tail(matches), InsertByConfidence(sorted, Head(matches)))

\* Array.prototype.slice(0, end)
slice(array, end) ==
  LET last == IF end.nan THEN 0
              ELSE IF end.v < 0 THEN Max2(Len(array) + end.v, 0)
              ELSE Min2(end.v, Len(array))
  IN  SubSeq(array, 1, last)

\* the layers pushed in the reverse order
combinedMatchesPartialFirst(original, candidates, config) ==
  findPartialMatches(original, candidates, config)
    \o findTokenMatches(original, candidates, config)
    \o findHighSimilarityMatches(original, candidates, config)
    \o findExactMatches(original, candidates, config)

combinedMatches(original, candidates, config) ==
  findExactMatches(original, candidates, config)
    \o findHighSimilarityMatches(original, candidates, config)
    \o findTokenMatches(original, candidates, config)
    \o findPartialMatches(original, candidates, config)

\* bestMap after the loop, in the order of its values()
reconciledMatches(original, candidates, config) ==
  bestMapOf(combinedMatches(original, candidates, config), <<>>)

\* the reconciled matches with no confidence floor applied
filteredMatchesKeepsAll(original, candidates, config) ==
  reconciledMatches(original, candidates, config)

filteredMatches(original, candidates, config) ==
  LET Kept(m) == ConfidenceAtLeast(m.confidence, config.minConfidenceScore)
  IN  SelectSeq(reconciledMatches(original, candidates, config), Kept)

findAllMatches(original, candidates, config) ==
  slice(sortByConfidence(filteredMatches(original, candidates, config), <<>>),
        config.maxResultsPerCompany)

(***************************************************************************)
(* CompanyDeduplicator                                                     *)
(***************************************************************************)
VARIABLES
  constructed,      \* an instance exists: its constructor returned
  config,           \* this.config
  thrown,           \* the messages of the Error the last call threw, <<>> if none
  pc,               \* "idle", or "loop" inside findDuplicates
  companies,        \* the argument of the last findDuplicates call
  uniqueCompanies,  \* findDuplicates: uniqueCompanies
  processed,        \* findDuplicates: processed
  groups,           \* findDuplicates: groups
  i,                \* findDuplicates: the position of the for-of loop
  result,           \* <<the value findDuplicates returned>>, <<>> before it returns
  fnArgs,           \* the arguments of a direct call of an exported function
  fnResult          \* <<the value that call returned>>, <<>> before it returns

vars ==
  <<constructed, config, thrown, pc, companies, uniqueCompanies, processed,
    groups, i, result, fnArgs, fnResult>>

fnVars == <<fnArgs, fnResult>>

\* the array as it is, repeated values kept
SetOrderKeepsRepeats(array, seen) == seen \o array

\* [...new Set(array)]: the first occurrence of each value, in order
RECURSIVE SetOrder(_, _)
SetOrder(array, seen) ==
  IF array = <<>> THEN seen
  ELSE IF Head(array) \in Range(seen)
    THEN SetOrder(Tail(array), seen)
    ELSE SetOrder(Tail(array), Append(seen, Head(array)))

\* companies.filter(Boolean): nothing trimmed, only the empty string dropped
NonEmptyUntrimmed(array) == SelectSeq(array, NonEmpty)

\* companies.map(c => c.trim()).filter(Boolean)
TrimmedNonBlank(array) ==
  SelectSeq([k \in 1..Len(array) |-> trim(array[k])], NonEmpty)

\* the locals of a findDuplicates call that is not running
NoCall ==
  /\ companies' = <<>>
  /\ uniqueCompanies' = <<>>
  /\ processed' = {}
  /\ groups' = <<>>
  /\ i' = 0
  /\ result' = <<>>

\* new CompanyDeduplicator(cfg)
Construct(cfg) ==
  /\ pc = "idle"
  /\ ~constructed
  /\ LET errs == validateConfig(cfg)
     IN  IF Len(errs) # 0
           THEN /\ thrown' = errs
                /\ UNCHANGED <<constructed, config>>
           ELSE /\ thrown' = <<>>
                /\ constructed' = TRUE
                /\ config' = cfg
  /\ pc' = "idle"
  /\ NoCall
  /\ UNCHANGED fnVars

setConfig(newCfg) ==
  /\ pc = "idle"
  /\ constructed
  /\ LET errs == validateConfig(newCfg)
     IN  IF Len(errs) # 0
           THEN /\ thrown' = errs
                /\ UNCHANGED config
           ELSE /\ thrown' = <<>>
                /\ config' = newCfg
  /\ UNCHANGED <<constructed, pc>>
  /\ NoCall
  /\ UNCHANGED fnVars

usePreset(preset, overrides) == setConfig(createConfig(preset, overrides))

\* findDuplicates up to the for-of loop
findDuplicatesEnter(input) ==
  /\ pc = "idle"
  /\ constructed
  /\ companies' = input
  /\ uniqueCompanies' = SetOrder(TrimmedNonBlank(input), <<>>)
  /\ processed' = {}
  /\ groups' = <<>>
  /\ i' = 1
  /\ result' = <<>>
  /\ thrown' = <<>>
  /\ pc' = "loop"
  /\ UNCHANGED <<constructed, config>>
  /\ UNCHANGED fnVars

\* the loop without its guard on processed
findDuplicatesLoopNoSkip ==
  /\ pc = "loop"
  /\ i <= Len(uniqueCompanies)
  /\ LET company == uniqueCompanies[i]
         matches == findAllMatches(company, uniqueCompanies, config)
     IN  IF Len(matches) # 0
           THEN /\ groups' = Append(groups,
                      [original |-> company, duplicates |-> matches,
                       totalMatches |-> Len(matches)])
                /\ processed' = processed \cup {company}
                      \cup {matches[k].candidate : k \in 1..Len(matches)}
           ELSE UNCHANGED <<groups, processed>>
  /\ i' = i + 1
  /\ UNCHANGED <<constructed, config, thrown, pc, companies, uniqueCompanies, result>>
  /\ UNCHANGED fnVars

\* the loop without its test of matches.length
findDuplicatesLoopAlwaysEmits ==
  /\ pc = "loop"
  /\ i <= Len(uniqueCompanies)
  /\ LET company == uniqueCompanies[i]
         matches == findAllMatches(company, uniqueCompanies, config)
     IN  IF company \in processed
           THEN UNCHANGED <<groups, processed>>
           ELSE /\ groups' = Append(groups,
                      [original |-> company, duplicates |-> matches,
                       totalMatches |-> Len(matches)])
                /\ processed' = processed \cup {company}
                      \cup {matches[k].candidate : k \in 1..Len(matches)}
  /\ i' = i + 1
  /\ UNCHANGED <<constructed, config, thrown, pc, companies, uniqueCompanies, result>>
  /\ UNCHANGED fnVars

\* the loop matching against the names no group has claimed yet
findDuplicatesLoopUnclaimedPool ==
  /\ pc = "loop"
  /\ i <= Len(uniqueCompanies)
  /\ LET company == uniqueCompanies[i]
         Unclaimed(name) == name \notin processed
         matches == findAllMatches(company, SelectSeq(uniqueCompanies, Unclaimed), config)
     IN  IF company \in processed
           THEN UNCHANGED <<groups, processed>>
           ELSE IF Len(matches) # 0
             THEN /\ groups' = Append(groups,
                        [original |-> company, duplicates |-> matches,
                         totalMatches |-> Len(matches)])
                  /\ processed' = processed \cup {company}
                        \cup {matches[k].candidate : k \in 1..Len(matches)}
             ELSE UNCHANGED <<groups, processed>>
  /\ i' = i + 1
  /\ UNCHANGED <<constructed, config, thrown, pc, companies, uniqueCompanies, result>>
  /\ UNCHANGED fnVars

\* the loop claiming every match that passed the filter, those cut by truncation too
findDuplicatesLoopClaimsCut ==
  /\ pc = "loop"
  /\ i <= Len(uniqueCompanies)
  /\ LET company == uniqueCompanies[i]
         matches == findAllMatches(company, uniqueCompanies, config)
         uncut == filteredMatches(company, uniqueCompanies, config)
     IN  IF company \in processed
           THEN UNCHANGED <<groups, processed>>
           ELSE IF Len(matches) # 0
             THEN /\ groups' = Append(groups,
                        [original |-> company, duplicates |-> matches,
                         totalMatches |-> Len(matches)])
                  /\ processed' = processed \cup {company}
                        \cup {uncut[k].candidate : k \in 1..Len(uncut)}
             ELSE UNCHANGED <<groups, processed>>
  /\ i' = i + 1
  /\ UNCHANGED <<constructed, config, thrown, pc, companies, uniqueCompanies, result>>
  /\ UNCHANGED fnVars

\* the loop putting each new group in front of the earlier ones
findDuplicatesLoopPrepends ==
  /\ pc = "loop"
  /\ i <= Len(uniqueCompanies)
  /\ LET company == uniqueCompanies[i]
         matches == findAllMatches(company, uniqueCompanies, config)
     IN  IF company \in processed
           THEN UNCHANGED <<groups, processed>>
           ELSE IF Len(matches) # 0
             THEN /\ groups' = <<[original |-> company, duplicates |-> matches,
                                  totalMatches |-> Len(matches)]>> \o groups
                  /\ processed' = processed \cup {company}
                        \cup {matches[k].candidate : k \in 1..Len(matches)}
             ELSE UNCHANGED <<groups, processed>>
  /\ i' = i + 1
  /\ UNCHANGED <<constructed, config, thrown, pc, companies, uniqueCompanies, result>>
  /\ UNCHANGED fnVars

\* one iteration of the for-of loop
findDuplicatesLoop ==
  /\ pc = "loop"
  /\ i <= Len(uniqueCompanies)
  /\ LET company == uniqueCompanies[i]
         matches == findAllMatches(company, uniqueCompanies, config)
     IN  IF company \in processed
           THEN UNCHANGED <<groups, processed>>
           ELSE IF Len(matches) # 0
             THEN /\ groups' = Append(groups,
                        [original |-> company, duplicates |-> matches,
                         totalMatches |-> Len(matches)])
                  /\ processed' = processed \cup {company}
                        \cup {matches[k].candidate : k \in 1..Len(matches)}
             ELSE UNCHANGED <<groups, processed>>
  /\ i' = i + 1
  /\ UNCHANGED <<constructed, config, thrown, pc, companies, uniqueCompanies, result>>
  /\ UNCHANGED fnVars

\* the return statement of findDuplicates; processingTimeMs, a difference of two
\* clock readings, is left out of the returned value
findDuplicatesReturn ==
  /\ pc = "loop"
  /\ i > Len(uniqueCompanies)
  /\ result' = <<[totalCompanies |-> Len(uniqueCompanies),
                  duplicateGroups |-> groups,
                  config |-> config]>>
  /\ pc' = "idle"
  /\ UNCHANGED <<constructed, config, thrown, companies, uniqueCompanies,
                 processed, groups, i>>
  /\ UNCHANGED fnVars

\* findDuplicatesForCompany with the pool passed on as it came
findDuplicatesForCompanyRawPool ==
  /\ pc = "idle"
  /\ constructed
  /\ fnArgs # <<>>
  /\ fnResult = <<>>
  /\ fnResult' = <<findAllMatches(fnArgs.company, fnArgs.candidates, config)>>
  /\ UNCHANGED <<constructed, config, thrown, pc, companies, uniqueCompanies,
                 processed, groups, i, result, fnArgs>>

\* findDuplicatesForCompany(company, candidates), the arguments in fnArgs
findDuplicatesForCompany ==
  /\ pc = "idle"
  /\ constructed
  /\ fnArgs # <<>>
  /\ fnResult = <<>>
  /\ LET cleaned == TrimmedNonBlank(fnArgs.candidates)
     IN  fnResult' = <<findAllMatches(fnArgs.company, cleaned, config)>>
  /\ UNCHANGED <<constructed, config, thrown, pc, companies, uniqueCompanies,
                 processed, groups, i, result, fnArgs>>

(***************************************************************************)
(* The inputs the model draws.                                             *)
(***************************************************************************)
MaxCompanies == 3

\* "ab", "AB", "abc", " ab" and the blank " "
RawNames ==
  {<<"a", "b">>, <<"A", "B">>, <<"a", "b", "c">>, <<" ", "a", "b">>, <<" ">>}

RECURSIVE ListsUpTo(_, _)
ListsUpTo(S, n) ==
  IF n = 0 THEN {<<>>}
  ELSE LET shorter == ListsUpTo(S, n - 1)
       IN  shorter \cup {Append(l, x) : l \in shorter, x \in S}

CompanyLists == ListsUpTo(RawNames, MaxCompanies)

Loose ==
  [highSimilarityThreshold |-> Num(500), tokenMatchThreshold |-> Num(500),
   partialMatchThreshold |-> Num(500), removeSuffixes |-> TRUE,
   handleAccents |-> TRUE, removeNumbers |-> FALSE,
   minConfidenceScore |-> Num(500), maxResultsPerCompany |-> Num(10)]

ConfigArgs ==
  {Loose,
   [Loose EXCEPT !.maxResultsPerCompany = Num(1)],
   [Loose EXCEPT !.highSimilarityThreshold = Num(1100)],
   [Loose EXCEPT !.tokenMatchThreshold = Num(-100),
                 !.maxResultsPerCompany = Num(0)],
   [Loose EXCEPT !.highSimilarityThreshold = Num(-1),
                 !.tokenMatchThreshold = Num(1001),
                 !.partialMatchThreshold = Num(2000),
                 !.minConfidenceScore = Num(-500),
                 !.maxResultsPerCompany = Num(-1)],
   [Loose EXCEPT !.highSimilarityThreshold = NaN]}

PresetArgs == DOMAIN CONFIG_PRESETS

\* an overrides object, as the list of its own properties
OverrideArgs ==
  {<<>>,
   <<[field |-> "minConfidenceScore", value |-> Num(1100)]>>}

Init ==
  /\ constructed = FALSE
  /\ config = DEFAULT_CONFIG
  /\ thrown = <<>>
  /\ pc = "idle"
  /\ companies = <<>>
  /\ uniqueCompanies = <<>>
  /\ processed = {}
  /\ groups = <<>>
  /\ i = 0
  /\ result = <<>>
  /\ fnArgs = <<>>
  /\ fnResult = <<>>

Next ==
  \/ \E cfg \in ConfigArgs : Construct(cfg)
  \/ \E cfg \in ConfigArgs : setConfig(cfg)
  \/ \E preset \in PresetArgs, overrides \in OverrideArgs : usePreset(preset, overrides)
  \/ \E input \in CompanyLists : findDuplicatesEnter(input)
  \/ findDuplicatesLoop
  \/ findDuplicatesReturn

Spec == Init /\ [][Next]_vars

(***************************************************************************)
(* Direct calls of the exported pure functions: the arguments are drawn in *)
(* the initial state and one step applies the function.                    *)
(***************************************************************************)
ObjectIdle ==
  /\ constructed = FALSE
  /\ config = DEFAULT_CONFIG
  /\ thrown = <<>>
  /\ pc = "idle"
  /\ companies = <<>>
  /\ uniqueCompanies = <<>>
  /\ processed = {}
  /\ groups = <<>>
  /\ i = 0
  /\ result = <<>>

objectVars ==
  <<constructed, config, thrown, pc, companies, uniqueCompanies, processed,
    groups, i, result>>

ThresholdArgs == {Num(-1), Num(0), Num(1000), Num(1001), NaN}
CountArgs == {Num(-1), Num(0), Num(1)}

ValidateArgs ==
  {[Loose EXCEPT !.highSimilarityThreshold = h, !.tokenMatchThreshold = t,
                 !.partialMatchThreshold = p, !.minConfidenceScore = c,
                 !.maxResultsPerCompany = m] :
     h \in ThresholdArgs, t \in ThresholdArgs, p \in ThresholdArgs,
     c \in ThresholdArgs, m \in CountArgs}

ValidateInit ==
  /\ ObjectIdle
  /\ fnArgs \in {[cfg |-> c] : c \in ValidateArgs}
  /\ fnResult = <<>>

callValidateConfig ==
  /\ fnResult = <<>>
  /\ fnResult' = <<validateConfig(fnArgs.cfg)>>
  /\ UNCHANGED <<objectVars, fnArgs>>

SpecValidate == ValidateInit /\ [][callValidateConfig]_vars

MaxPool == 3

\* "ab", "AB", " ab", "a b", "b a" and "a"
MatchNames ==
  {<<"a", "b">>, <<"A", "B">>, <<" ", "a", "b">>, <<"a", " ", "b">>,
   <<"b", " ", "a">>, <<"a">>}

VeryLoose ==
  [Loose EXCEPT !.highSimilarityThreshold = Num(300),
                !.tokenMatchThreshold = Num(300),
                !.partialMatchThreshold = Num(300),
                !.minConfidenceScore = Num(300)]

\* the strategy thresholds of VeryLoose under a higher confidence floor
HighFloor == [VeryLoose EXCEPT !.minConfidenceScore = Num(600)]

MatchConfigs ==
  {DEFAULT_CONFIG, Loose, [Loose EXCEPT !.maxResultsPerCompany = Num(1)], VeryLoose,
   HighFloor}

MatchInit ==
  /\ ObjectIdle
  /\ fnArgs \in
       {[original |-> o, candidates |-> c, config |-> cfg] :
          o \in MatchNames, c \in ListsUpTo(MatchNames, MaxPool), cfg \in MatchConfigs}
  /\ fnResult = <<>>

callFindAllMatches ==
  /\ fnResult = <<>>
  /\ fnResult' = <<findAllMatches(fnArgs.original, fnArgs.candidates, fnArgs.config)>>
  /\ UNCHANGED <<objectVars, fnArgs>>

SpecMatch == MatchInit /\ [][callFindAllMatches]_vars

(***************************************************************************)
(* findDuplicates on an instance that was constructed with a valid         *)
(* configuration, over names made of several words and names that          *)
(* normalize to the empty string.                                          *)
(***************************************************************************)
\* "a b", "b a", "a", "co" and "!"
ClusterNames ==
  {<<"a", " ", "b">>, <<"b", " ", "a">>, <<"a">>, <<"c", "o">>, <<"!">>}

ClusterLists == ListsUpTo(ClusterNames, MaxCompanies)

ClusterConfigs ==
  {VeryLoose, [VeryLoose EXCEPT !.maxResultsPerCompany = Num(1)], DEFAULT_CONFIG}

ClusterInit ==
  /\ constructed = TRUE
  /\ config \in ClusterConfigs
  /\ thrown = <<>>
  /\ pc = "idle"
  /\ companies = <<>>
  /\ uniqueCompanies = <<>>
  /\ processed = {}
  /\ groups = <<>>
  /\ i = 0
  /\ result = <<>>
  /\ fnArgs = <<>>
  /\ fnResult = <<>>

ClusterNext ==
  \/ \E input \in ClusterLists : findDuplicatesEnter(input)
  \/ findDuplicatesLoop
  \/ findDuplicatesReturn

SpecCluster == ClusterInit /\ [][ClusterNext]_vars

(***************************************************************************)
(* findDuplicatesForCompany on an instance that was constructed with a     *)
(* valid configuration.                                                    *)
(***************************************************************************)
LookupConfigs ==
  {Loose, [Loose EXCEPT !.maxResultsPerCompany = Num(1)], DEFAULT_CONFIG}

LookupInit ==
  /\ constructed = TRUE
  /\ config \in LookupConfigs
  /\ thrown = <<>>
  /\ pc = "idle"
  /\ companies = <<>>
  /\ uniqueCompanies = <<>>
  /\ processed = {}
  /\ groups = <<>>
  /\ i = 0
  /\ result = <<>>
  /\ fnArgs \in
       {[company |-> c, candidates |-> pool] :
          c \in RawNames, pool \in ListsUpTo(RawNames, MaxPool)}
  /\ fnResult = <<>>

SpecLookup == LookupInit /\ [][findDuplicatesForCompany]_vars

(***************************************************************************)
(* normalizeCompanyName applied to every short string of an alphabet that  *)
(* has a character for each step to act on.                                *)
(***************************************************************************)
MaxLen == 4

\* the letters of the suffix "co", an upper-case letter, a space, a digit, an
\* accented letter, a punctuation mark and the underscore
NormalizeChars == {"c", "o", "C", " ", "1", "E_ACUTE", "!", "_"}

NormalizeConfigs ==
  {[Loose EXCEPT !.removeSuffixes = s, !.handleAccents = a, !.removeNumbers = n] :
     s \in BOOLEAN, a \in BOOLEAN, n \in BOOLEAN}

NormalizeInit ==
  /\ ObjectIdle
  /\ fnArgs \in
       {[name |-> x, config |-> cfg] :
          x \in ListsUpTo(NormalizeChars, MaxLen), cfg \in NormalizeConfigs}
  /\ fnResult = <<>>

callNormalizeCompanyName ==
  /\ fnResult = <<>>
  /\ fnResult' = <<normalizeCompanyName(fnArgs.name, fnArgs.config)>>
  /\ UNCHANGED <<objectVars, fnArgs>>

SpecNormalize == NormalizeInit /\ [][callNormalizeCompanyName]_vars

(***************************************************************************)
(* calculateLevenshteinDistance and calculateSimilarity applied to every   *)
(* pair of short strings over two letters.                                 *)
(***************************************************************************)
SimilarityChars == {"a", "b"}

SimilarityFunctions == {"calculateLevenshteinDistance", "calculateSimilarity"}

SimilarityInit ==
  /\ ObjectIdle
  /\ fnArgs \in
       {[function |-> f, a |-> x, b |-> y] :
          f \in SimilarityFunctions,
          x \in ListsUpTo(SimilarityChars, MaxLen),
          y \in ListsUpTo(SimilarityChars, MaxLen)}
  /\ fnResult = <<>>

callCalculateLevenshteinDistance ==
  /\ fnResult = <<>>
  /\ fnArgs.function = "calculateLevenshteinDistance"
  /\ fnResult' = <<calculateLevenshteinDistance(fnArgs.a, fnArgs.b)>>
  /\ UNCHANGED <<objectVars, fnArgs>>

callCalculateSimilarity ==
  /\ fnResult = <<>>
  /\ fnArgs.function = "calculateSimilarity"
  /\ fnResult' = <<calculateSimilarity(fnArgs.a, fnArgs.b)>>
  /\ UNCHANGED <<objectVars, fnArgs>>

SimilarityNext ==
  \/ callCalculateLevenshteinDistance
  \/ callCalculateSimilarity

SpecSimilarity == SimilarityInit /\ [][SimilarityNext]_vars

(***************************************************************************)
(* isLikelyGeographicVariant applied to pairs of normalized names.         *)
(***************************************************************************)
\* "", "a", "a b", "us", "a us", "a uk", "b us", "us uk" and "a b us"
GeographicNames ==
  {<<>>, <<"a">>, <<"a", " ", "b">>, <<"u", "s">>, <<"a", " ", "u", "s">>,
   <<"a", " ", "u", "k">>, <<"b", " ", "u", "s">>, <<"u", "s", " ", "u", "k">>,
   <<"a", " ", "b", " ", "u", "s">>}

GeographicInit ==
  /\ ObjectIdle
  /\ fnArgs \in {[name1 |-> x, name2 |-> y] : x \in GeographicNames, y \in GeographicNames}
  /\ fnResult = <<>>

callIsLikelyGeographicVariant ==
  /\ fnResult = <<>>
  /\ fnResult' = <<isLikelyGeographicVariant(fnArgs.name1, fnArgs.name2)>>
  /\ UNCHANGED <<objectVars, fnArgs>>

SpecGeographic == GeographicInit /\ [][callIsLikelyGeographicVariant]_vars

(***************************************************************************)
(* calculateTokenOverlap applied to every pair of short strings over two   *)
(* letters and the space.                                                  *)
(***************************************************************************)
OverlapChars == {"a", "b", " "}

OverlapInit ==
  /\ ObjectIdle
  /\ fnArgs \in
       {[name1 |-> x, name2 |-> y] :
          x \in ListsUpTo(OverlapChars, MaxLen), y \in ListsUpTo(OverlapChars, MaxLen)}
  /\ fnResult = <<>>

callCalculateTokenOverlap ==
  /\ fnResult = <<>>
  /\ fnResult' = <<calculateTokenOverlap(fnArgs.name1, fnArgs.name2)>>
  /\ UNCHANGED <<objectVars, fnArgs>>

SpecOverlap == OverlapInit /\ [][callCalculateTokenOverlap]_vars

(***************************************************************************)
(* One layer of findAllMatches applied to a query and one candidate.       *)
(***************************************************************************)
\* "a", "ab", "abc", "a b", "b a", "a us", "co" and "!"
PairNames ==
  {<<"a">>, <<"a", "b">>, <<"a", "b", "c">>, <<"a", " ", "b">>, <<"b", " ", "a">>,
   <<"a", " ", "u", "s">>, <<"c", "o">>, <<"!">>}

\* every layer threshold 0
ZeroThresholds ==
  [Loose EXCEPT !.highSimilarityThreshold = Num(0),
                !.tokenMatchThreshold = Num(0),
                !.partialMatchThreshold = Num(0),
                !.minConfidenceScore = Num(0)]

\* thresholds just above and just below the scores 1/2 and 2/3
NearThresholds ==
  [Loose EXCEPT !.highSimilarityThreshold = Num(667),
                !.tokenMatchThreshold = Num(600),
                !.partialMatchThreshold = Num(666)]

PairConfigs == {DEFAULT_CONFIG, Loose, VeryLoose, ZeroThresholds, NearThresholds}

Layers == {"findHighSimilarityMatches", "findTokenMatches", "findPartialMatches"}

PairInit ==
  /\ ObjectIdle
  /\ fnArgs \in
       {[layer |-> l, original |-> o, candidates |-> <<c>>, config |-> cfg] :
          l \in Layers, o \in PairNames, c \in PairNames, cfg \in PairConfigs}
  /\ fnResult = <<>>

callFindHighSimilarityMatches ==
  /\ fnResult = <<>>
  /\ fnArgs.layer = "findHighSimilarityMatches"
  /\ fnResult' =
       <<findHighSimilarityMatches(fnArgs.original, fnArgs.candidates, fnArgs.config)>>
  /\ UNCHANGED <<objectVars, fnArgs>>

callFindTokenMatches ==
  /\ fnResult = <<>>
  /\ fnArgs.layer = "findTokenMatches"
  /\ fnResult' = <<findTokenMatches(fnArgs.original, fnArgs.candidates, fnArgs.config)>>
  /\ UNCHANGED <<objectVars, fnArgs>>

callFindPartialMatches ==
  /\ fnResult = <<>>
  /\ fnArgs.layer = "findPartialMatches"
  /\ fnResult' = <<findPartialMatches(fnArgs.original, fnArgs.candidates, fnArgs.config)>>
  /\ UNCHANGED <<objectVars, fnArgs>>

PairNext ==
  \/ callFindHighSimilarityMatches
  \/ callFindTokenMatches
  \/ callFindPartialMatches

SpecPair == PairInit /\ [][PairNext]_vars

(***************************************************************************)
(* Properties of findDuplicates.                                           *)
(***************************************************************************)
Candidates(group) ==
  {group.duplicates[k].candidate : k \in 1..Len(group.duplicates)}

Representatives == {groups[a].original : a \in 1..Len(groups)}

\* a findDuplicates call is running or has returned
InPass == pc = "loop" \/ result # <<>>

\* C1: a name that is the representative or a match of an emitted group is never
\* the representative of a later group
C1_ClaimedNeverRepresentsLater ==
  \A a, b \in 1..Len(groups) :
    a < b =>
      /\ groups[b].original # groups[a].original
      /\ groups[b].original \notin Candidates(groups[a])

\* two groups were emitted, and a name with matches of its own was passed over
\* because an earlier group had claimed it
C1_Witness ==
  /\ Len(groups) >= 2
  /\ \E k \in 1..Len(uniqueCompanies) :
       /\ k < i
       /\ uniqueCompanies[k] \in processed
       /\ uniqueCompanies[k] \notin Representatives
       /\ findAllMatches(uniqueCompanies[k], uniqueCompanies, config) # <<>>

\* C2 as stated: a raw name is a match-target in at most one group
C2_TargetInAtMostOneGroup ==
  \A a, b \in 1..Len(groups) :
    a # b => Candidates(groups[a]) \cap Candidates(groups[b]) = {}

\* C2 amended: within one group a raw name is a match-target at most once (a later
\* group may list a name that an earlier group already lists)
C2_TargetOncePerGroup ==
  \A a \in 1..Len(groups) :
    \A k, l \in 1..Len(groups[a].duplicates) :
      k # l => groups[a].duplicates[k].candidate # groups[a].duplicates[l].candidate

\* a name is a match-target of two groups, and more than one strategy produced a
\* match for a candidate that a group lists
C2_Witness ==
  /\ \E a, b \in 1..Len(groups) :
       a # b /\ Candidates(groups[a]) \cap Candidates(groups[b]) # {}
  /\ \E a \in 1..Len(groups) :
       LET combined ==
             combinedMatches(groups[a].original, uniqueCompanies, config)
       IN  \E k, l \in 1..Len(combined) :
             /\ k # l
             /\ combined[k].candidate = combined[l].candidate
             /\ combined[k].candidate \in Candidates(groups[a])

\* C3: a name for which the Matcher returns no match starts no group, is a match of
\* no group and is not claimed
C3_NoMatchNeverGrouped ==
  InPass =>
    \A k \in 1..Len(uniqueCompanies) :
      findAllMatches(uniqueCompanies[k], uniqueCompanies, config) = <<>> =>
        /\ uniqueCompanies[k] \notin processed
        /\ uniqueCompanies[k] \notin Representatives
        /\ \A a \in 1..Len(groups) : uniqueCompanies[k] \notin Candidates(groups[a])

\* the pass has ended with a group emitted and a visited name left ungrouped
C3_Witness ==
  /\ result # <<>>
  /\ Len(groups) >= 1
  /\ \E k \in 1..Len(uniqueCompanies) :
       findAllMatches(uniqueCompanies[k], uniqueCompanies, config) = <<>>

\* the names claimed by the groups whose representative comes before position k
ClaimedBefore(k) ==
  UNION {{groups[a].original} \cup Candidates(groups[a]) :
           a \in {b \in 1..Len(groups) :
                    \E j \in 1..(k - 1) : uniqueCompanies[j] = groups[b].original}}

\* C4: a visited name has a group exactly when no earlier group claimed it and the
\* Matcher returns a match for it; the group lists the Matcher's result against
\* the whole unique list
C4_GroupIsMatcherResult ==
  InPass =>
    /\ \A k \in 1..Len(uniqueCompanies) :
         k < i =>
           (uniqueCompanies[k] \in Representatives
              <=> /\ uniqueCompanies[k] \notin ClaimedBefore(k)
                  /\ findAllMatches(uniqueCompanies[k], uniqueCompanies, config) # <<>>)
    /\ \A a \in 1..Len(groups) :
         /\ groups[a].duplicates # <<>>
         /\ groups[a].duplicates =
              findAllMatches(groups[a].original, uniqueCompanies, config)

\* a group lists a name that an earlier group had claimed
C4_Witness ==
  \E a, b \in 1..Len(groups) :
    /\ a < b
    /\ Candidates(groups[b]) \cap ({groups[a].original} \cup Candidates(groups[a])) # {}

IsBlank(name) == trim(name) = <<>>
NotBlank(name) == ~IsBlank(name)

\* the first position of the input whose trimmed entry is name
FirstInput(name) ==
  CHOOSE k \in 1..Len(companies) :
    /\ trim(companies[k]) = name
    /\ \A j \in 1..(k - 1) : trim(companies[j]) # name

\* C5 as stated: totalCompanies counts the input entries that are not blank, equal
\* entries counted once
C5_TotalCountsRawEntries ==
  result # <<>> =>
    result[1].totalCompanies = Cardinality(Range(SelectSeq(companies, NotBlank)))

\* C5 amended: the list is the input with every entry trimmed, blank entries removed
\* and entries equal after trimming collapsed to the first, in input order;
\* totalCompanies is its length and no group names a blank
C5_TrimmedUniqueList ==
  InPass =>
    /\ \A k \in 1..Len(uniqueCompanies) :
         /\ ~IsBlank(uniqueCompanies[k])
         /\ \E j \in 1..Len(companies) : uniqueCompanies[k] = trim(companies[j])
    /\ \A j \in 1..Len(companies) :
         ~IsBlank(companies[j]) => trim(companies[j]) \in Range(uniqueCompanies)
    /\ \A k, l \in 1..Len(uniqueCompanies) :
         k < l =>
           /\ uniqueCompanies[k] # uniqueCompanies[l]
           /\ FirstInput(uniqueCompanies[k]) < FirstInput(uniqueCompanies[l])
    /\ result # <<>> => result[1].totalCompanies = Len(uniqueCompanies)
    /\ \A a \in 1..Len(groups) :
         /\ ~IsBlank(groups[a].original)
         /\ \A name \in Candidates(groups[a]) : ~IsBlank(name)

\* the call returned a group for an input that holds an entry padded with
\* whitespace and the same entry unpadded
C5_Witness ==
  /\ result # <<>>
  /\ \E j, k \in 1..Len(companies) :
       companies[j] # companies[k] /\ trim(companies[j]) = trim(companies[k])
            /\ ~IsBlank(companies[j])
  /\ result[1].totalCompanies < Len(companies)
  /\ Len(groups) >= 1

AllBlank(array) == \A k \in 1..Len(array) : IsBlank(array[k])

\* C8: for an input that is empty or all blank, findDuplicates throws nothing, its
\* loop has nothing to visit, and it returns totalCompanies = 0 and no group
C8_EmptyInputEmptyResult ==
  AllBlank(companies) =>
    /\ pc = "loop" =>
         uniqueCompanies = <<>> /\ i > Len(uniqueCompanies) /\ groups = <<>>
    /\ result # <<>> =>
         /\ thrown = <<>>
         /\ result[1].totalCompanies = 0
         /\ result[1].duplicateGroups = <<>>

\* the call returned for an input of blank entries only
C8_Witness ==
  /\ result # <<>>
  /\ companies # <<>>
  /\ AllBlank(companies)

(***************************************************************************)
(* Properties of the configuration.                                        *)
(***************************************************************************)
InUnitRange(x) == ~x.nan /\ 0 <= x.v /\ x.v <= 1000
Positive(x) == ~x.nan /\ x.v > 0

RangesHold(cfg) ==
  /\ InUnitRange(cfg.highSimilarityThreshold)
  /\ InUnitRange(cfg.tokenMatchThreshold)
  /\ InUnitRange(cfg.partialMatchThreshold)
  /\ InUnitRange(cfg.minConfidenceScore)
  /\ Positive(cfg.maxResultsPerCompany)

\* C6: the configuration an instance holds, and so every configuration
\* findDuplicates uses, has its four thresholds in [0,1] and
\* maxResultsPerCompany > 0
C6_HeldConfigInRange == constructed => RangesHold(config)

Fields(errs) == Range(errs)

\* C7: validateConfig returns one message for each threshold that is not in [0,1]
\* and one for maxResultsPerCompany when it is <= 0, nothing else, and so returns
\* the empty list exactly for the configurations whose ranges hold
C7_EveryViolationReported ==
  fnResult # <<>> =>
    LET cfg == fnArgs.cfg
        errs == fnResult[1]
        Violated(f) ==
          IF f = "maxResultsPerCompany" THEN AtMostZero(cfg[f]) ELSE ~InUnitRange(cfg[f])
        Checked ==
          {"highSimilarityThreshold", "tokenMatchThreshold", "partialMatchThreshold",
           "minConfidenceScore", "maxResultsPerCompany"}
    IN  /\ Fields(errs) = {f \in Checked : Violated(f)}
        /\ Len(errs) = Cardinality(Fields(errs))
        /\ (errs = <<>> <=> RangesHold(cfg))

(***************************************************************************)
(* Properties of findAllMatches.                                           *)
(***************************************************************************)
Returned == fnResult[1]

AllProduced == combinedMatches(fnArgs.original, fnArgs.candidates, fnArgs.config)

\* C9: findAllMatches returns at most one match per candidate, and it is the one
\* of highest confidence among those the strategies produced for that candidate
C9_BestMatchPerCandidate ==
  fnResult # <<>> =>
    LET produced == AllProduced
        returned == Returned
    IN  /\ \A k, l \in 1..Len(returned) :
             k # l => returned[k].candidate # returned[l].candidate
        /\ \A k \in 1..Len(returned) :
             /\ \E m \in 1..Len(produced) : produced[m] = returned[k]
             /\ \A m \in 1..Len(produced) :
                  produced[m].candidate = returned[k].candidate =>
                    returned[k].confidence >= produced[m].confidence

\* a returned candidate for which a later strategy produced a higher confidence
\* than an earlier one
C9_Witness ==
  /\ fnResult # <<>>
  /\ LET produced == AllProduced
         returned == Returned
     IN  \E k \in 1..Len(returned) :
           \E m, n \in 1..Len(produced) :
             /\ m < n
             /\ produced[m].candidate = returned[k].candidate
             /\ produced[n].candidate = returned[k].candidate
             /\ produced[m].confidence < produced[n].confidence

\* the candidates of the pool that differ from the query and normalize as it does
SameNormalized ==
  {c \in Range(fnArgs.candidates) :
     /\ c # fnArgs.original
     /\ normalizeCompanyName(c, fnArgs.config)
          = normalizeCompanyName(fnArgs.original, fnArgs.config)}

MatchesFor(matches, c) == {k \in 1..Len(matches) : matches[k].candidate = c}

IsExactOne(match) ==
  match.method = "exact_after_normalization" /\ match.confidence = 1000

\* C10 as stated: for a candidate that normalizes as the query does, findAllMatches
\* returns exactly one match, exact_after_normalization with confidence 1.0
C10_ExactMatchReturned ==
  fnResult # <<>> =>
    \A c \in SameNormalized :
      /\ Cardinality(MatchesFor(Returned, c)) = 1
      /\ \A k \in MatchesFor(Returned, c) : IsExactOne(Returned[k])

\* C10 amended: reconciliation keeps for such a candidate exactly one match,
\* exact_after_normalization with confidence 1.0; findAllMatches returns at most
\* one match for it, that one, and does return it when it passes the
\* minConfidenceScore filter and truncation cuts nothing
C10_ExactMatchSurvivesReconciliation ==
  fnResult # <<>> =>
    LET reconciled ==
          reconciledMatches(fnArgs.original, fnArgs.candidates, fnArgs.config)
        filtered ==
          filteredMatches(fnArgs.original, fnArgs.candidates, fnArgs.config)
        limit == fnArgs.config.maxResultsPerCompany
    IN  \A c \in SameNormalized :
          /\ Cardinality(MatchesFor(reconciled, c)) = 1
          /\ \A k \in MatchesFor(reconciled, c) : IsExactOne(reconciled[k])
          /\ Cardinality(MatchesFor(Returned, c)) <= 1
          /\ \A k \in MatchesFor(Returned, c) : IsExactOne(Returned[k])
          /\ (/\ ConfidenceAtLeast(1000, fnArgs.config.minConfidenceScore)
              /\ ~limit.nan
              /\ Len(filtered) <= limit.v)
               => MatchesFor(Returned, c) # {}

\* a candidate that normalizes as the query does is returned, and another strategy
\* had produced a match for it too; a second such candidate is cut by truncation
C10_Witness ==
  /\ fnResult # <<>>
  /\ LET produced == AllProduced
     IN  \E c \in SameNormalized :
           /\ MatchesFor(Returned, c) # {}
           /\ \E m \in MatchesFor(produced, c) : ~IsExactOne(produced[m])
  /\ \E c \in SameNormalized : MatchesFor(Returned, c) = {}

\* the candidates for which some strategy produced a match, all of them below the
\* confidence floor
BelowFloor(produced, floor) ==
  {c \in {produced[m].candidate : m \in 1..Len(produced)} :
     \A m \in MatchesFor(produced, c) : ~ConfidenceAtLeast(produced[m].confidence, floor)}

\* C11: every match findAllMatches returns has a reported confidence of at least
\* minConfidenceScore, whichever strategy produced it, and a candidate whose best
\* match is below that floor is absent from the result although it passed the
\* threshold of its strategy
C11_ReturnedAtLeastMinConfidence ==
  fnResult # <<>> =>
    LET produced == AllProduced
        returned == Returned
        floor == fnArgs.config.minConfidenceScore
    IN  /\ \A k \in 1..Len(returned) :
             ConfidenceAtLeast(returned[k].confidence, floor)
        /\ \A c \in BelowFloor(produced, floor) : MatchesFor(returned, c) = {}

\* a match is returned while another candidate, which passed a strategy threshold,
\* is below the floor
C11_Witness ==
  /\ fnResult # <<>>
  /\ Returned # <<>>
  /\ BelowFloor(AllProduced, fnArgs.config.minConfidenceScore) # {}

(***************************************************************************)
(* Properties of the order and the length of a result.                     *)
(***************************************************************************)
NonIncreasing(matches) ==
  \A k, l \in 1..Len(matches) : k < l => matches[k].confidence >= matches[l].confidence

\* kept is cut from all: as many entries as limit allows, each one of all, and none
\* of the entries left out above a kept one
FirstOfSorted(kept, all, limit) ==
  /\ Len(kept) = Min2(limit, Len(all))
  /\ \A k, l \in 1..Len(kept) : k # l => kept[k] # kept[l]
  /\ Range(kept) \subseteq Range(all)
  /\ \A m \in Range(all) \ Range(kept) :
       \A k \in 1..Len(kept) : m.confidence <= kept[k].confidence

\* C12: what findAllMatches returns, as every group of findDuplicates lists it, is
\* the first maxResultsPerCompany entries of the reconciled, filtered matches in
\* descending confidence: at most maxResultsPerCompany entries, non-increasing, no
\* dropped match above a kept one, and totalMatches is the length of the list
C12_SortedAndTruncated ==
  \A a \in 1..Len(groups) :
    LET kept == groups[a].duplicates
        all == filteredMatches(groups[a].original, uniqueCompanies, config)
        limit == config.maxResultsPerCompany
    IN  /\ ~limit.nan
        /\ Len(kept) <= limit.v
        /\ NonIncreasing(kept)
        /\ FirstOfSorted(kept, all, limit.v)
        /\ groups[a].totalMatches = Len(kept)

\* a group whose matches were reconciled in ascending confidence and of which
\* truncation cut one
C12_Witness ==
  \E a \in 1..Len(groups) :
    LET all == filteredMatches(groups[a].original, uniqueCompanies, config)
    IN  /\ ~NonIncreasing(all)
        /\ Len(groups[a].duplicates) < Len(all)

\* every match of the list pairs the query with another raw string
NoSelfMatch(matches, query) ==
  \A k \in 1..Len(matches) :
    matches[k].original = query /\ matches[k].candidate # query

\* C13: no strategy and no result of findAllMatches pairs the query with a
\* candidate whose raw string is the query's, although the pool findDuplicates
\* passes always holds the query; no group lists its representative among its
\* duplicates
C13_NoSelfMatch ==
  InPass =>
    /\ \A k \in 1..Len(uniqueCompanies) :
         LET company == uniqueCompanies[k]
         IN  /\ NoSelfMatch(combinedMatches(company, uniqueCompanies, config), company)
             /\ NoSelfMatch(findAllMatches(company, uniqueCompanies, config), company)
    /\ \A a \in 1..Len(groups) :
         /\ NoSelfMatch(groups[a].duplicates, groups[a].original)
         /\ groups[a].original \notin Candidates(groups[a])

\* the call returned a group whose representative is in the pool it was matched
\* against, next to a name that normalizes as it does
C13_Witness ==
  /\ result # <<>>
  /\ \E a \in 1..Len(groups) :
       /\ groups[a].original \in Range(uniqueCompanies)
       /\ \E k \in 1..Len(groups[a].duplicates) :
            IsExactOne(groups[a].duplicates[k])

(***************************************************************************)
(* Properties of the layers.                                               *)
(***************************************************************************)
LayerReturned(layer) == fnResult # <<>> /\ fnArgs.layer = layer

PairCandidate == fnArgs.candidates[1]
PairN1 == normalizeCompanyName(fnArgs.original, fnArgs.config)
PairN2 == normalizeCompanyName(PairCandidate, fnArgs.config)

\* the layer returned one match for the pair, of the given method and confidence
\* (a quotient, reported in thousandths), when accepted holds and nothing otherwise
LayerResultIs(accepted, score, method) ==
  IF accepted
    THEN /\ Len(Returned) = 1
         /\ Returned[1].original = fnArgs.original
         /\ Returned[1].candidate = PairCandidate
         /\ Returned[1].method = method
         /\ Returned[1].confidence = ToFixed3(score)
    ELSE Returned = <<>>

\* score + 0.10, capped at 1.0
Boosted(score) ==
  IF 10 * score.n + score.d > 10 * score.d
    THEN [n |-> 1, d |-> 1]
    ELSE [n |-> 10 * score.n + score.d, d |-> 10 * score.d]

\* C14 as stated: the token layer scores a pair of distinct raw names as the token
\* overlap, raised by 0.10 and capped at 1.0 for a geographic variant, accepts it
\* iff the boosted score is at least tokenMatchThreshold and reports the boosted
\* score
C14_TokenMatchBoosted ==
  (LayerReturned("findTokenMatches") /\ PairCandidate # fnArgs.original) =>
    LET overlap == calculateTokenOverlap(PairN1, PairN2)
        score == IF isLikelyGeographicVariant(PairN1, PairN2)
                   THEN Boosted(overlap) ELSE overlap
    IN  LayerResultIs(ScoreAtLeast(score, fnArgs.config.tokenMatchThreshold),
                      score, "token_match")

\* the least number of single-character insertions, deletions and substitutions
\* that turn a into b
RECURSIVE EditDistance(_, _)
EditDistance(a, b) ==
  IF a = <<>> THEN Len(b)
  ELSE IF b = <<>> THEN Len(a)
  ELSE IF Head(a) = Head(b) THEN EditDistance(Tail(a), Tail(b))
  ELSE 1 + Min2(EditDistance(Tail(a), Tail(b)),
                Min2(EditDistance(Tail(a), b), EditDistance(a, Tail(b))))

\* 1 - editDistance / max(len), and 1 when both strings are empty
EditSimilarity(a, b) ==
  LET maxLen == Max2(Len(a), Len(b))
  IN  IF maxLen = 0 THEN [n |-> 1, d |-> 1]
      ELSE [n |-> maxLen - EditDistance(a, b), d |-> maxLen]

\* C15: the high-similarity layer scores a pair of distinct raw names as
\* 1 - editDistance / max(len) over the normalized forms, editDistance the least
\* number of single-character edits (1.0 when both forms are empty), and returns a
\* match iff the score is at least highSimilarityThreshold, equality included
C15_HighSimilarityScore ==
  (LayerReturned("findHighSimilarityMatches") /\ PairCandidate # fnArgs.original) =>
    LET score == EditSimilarity(PairN1, PairN2)
    IN  LayerResultIs(ScoreAtLeast(score, fnArgs.config.highSimilarityThreshold),
                      score, "high_similarity")

\* a match was returned for a pair whose score, below 1, equals the threshold
C15_Witness ==
  /\ LayerReturned("findHighSimilarityMatches")
  /\ Returned # <<>>
  /\ LET score == EditSimilarity(PairN1, PairN2)
     IN  /\ score.n < score.d
         /\ score.n * 1000 = fnArgs.config.highSimilarityThreshold.v * score.d

\* t occurs in s as a run of consecutive characters
IsSubstring(s, t) ==
  \E before \in 0..Len(s) :
    /\ before + Len(t) <= Len(s)
    /\ \A k \in 1..Len(t) : s[before + k] = t[k]

PairShorter == IF Len(PairN1) <= Len(PairN2) THEN PairN1 ELSE PairN2
PairLonger == IF Len(PairN1) <= Len(PairN2) THEN PairN2 ELSE PairN1

\* C16: the partial layer returns a match for a pair of distinct raw names iff the
\* shorter normalized form is a substring of the longer one and
\* len(shorter) / len(longer) is at least partialMatchThreshold; the confidence
\* is that ratio, and a pair not in a substring relationship yields no match
C16_PartialMatchIffSubstring ==
  (LayerReturned("findPartialMatches") /\ PairCandidate # fnArgs.original) =>
    LET ratio == [n |-> Len(PairShorter), d |-> Len(PairLonger)]
    IN  /\ LayerResultIs(/\ IsSubstring(PairLonger, PairShorter)
                          /\ ScoreAtLeast(ratio, fnArgs.config.partialMatchThreshold),
                         ratio, "partial_match")
        /\ ~IsSubstring(PairLonger, PairShorter) => Returned = <<>>

\* a match was returned for a form that is a proper substring of the other
C16_Witness ==
  /\ LayerReturned("findPartialMatches")
  /\ Returned # <<>>
  /\ 0 < Len(PairShorter)
  /\ Len(PairShorter) < Len(PairLonger)

(***************************************************************************)
(* Properties of the normalizer.                                           *)
(***************************************************************************)
\* C17: normalizeCompanyName is idempotent: normalizing its output again, under
\* the same removeSuffixes, handleAccents and removeNumbers, changes nothing
C17_NormalizeIdempotent ==
  fnResult # <<>> =>
    normalizeCompanyName(fnResult[1], fnArgs.config) = fnResult[1]

\* with the three toggles on, a name of which an accent was folded, a special
\* character dropped and a suffix word removed, and something is left
C17_Witness ==
  /\ fnResult # <<>>
  /\ fnArgs.config.removeSuffixes
  /\ fnArgs.config.handleAccents
  /\ fnArgs.config.removeNumbers
  /\ fnResult[1] # <<>>
  /\ {"E_ACUTE", "!"} \subseteq Range(fnArgs.name)
  /\ fnResult[1]
       # normalizeCompanyName(fnArgs.name, [fnArgs.config EXCEPT !.removeSuffixes = FALSE])

(***************************************************************************)
(* Properties of findDuplicatesForCompany.                                 *)
(***************************************************************************)
TrimEach(array) == [k \in 1..Len(array) |-> trim(array[k])]

\* C18 as stated: findDuplicatesForCompany returns what findAllMatches returns for
\* the pool with blank entries removed and repeated entries collapsed to the first
C18_LookupOverUniquePool ==
  fnResult # <<>> =>
    Returned = findAllMatches(fnArgs.company,
                              SetOrder(SelectSeq(fnArgs.candidates, NotBlank), <<>>),
                              config)

\* C18 amended: it returns what findAllMatches returns for the pool with every
\* entry trimmed, blank entries removed and entries equal after trimming collapsed
\* to the first; a candidate listed several times is returned at most once
C18_LookupOverTrimmedUniquePool ==
  fnResult # <<>> =>
    /\ Returned =
         findAllMatches(fnArgs.company,
                        SetOrder(SelectSeq(TrimEach(fnArgs.candidates), NotBlank), <<>>),
                        config)
    /\ \A k, l \in 1..Len(Returned) :
         k # l => Returned[k].candidate # Returned[l].candidate

\* two matches were returned for a pool that lists the candidate of the second
\* one both before and after the candidate of the first
C18_Witness ==
  /\ fnResult # <<>>
  /\ Len(Returned) = 2
  /\ \E j, k, l \in 1..Len(fnArgs.candidates) :
       /\ j < k /\ k < l
       /\ trim(fnArgs.candidates[j]) = Returned[2].candidate
       /\ trim(fnArgs.candidates[k]) = Returned[1].candidate
       /\ trim(fnArgs.candidates[l]) = Returned[2].candidate

(***************************************************************************)
(* Properties of the similarity functions.                                 *)
(***************************************************************************)
\* C19: calculateSimilarity(a, b) = calculateSimilarity(b, a) and
\* calculateLevenshteinDistance(a, b) = calculateLevenshteinDistance(b, a)
C19_SimilaritySymmetric ==
  fnResult # <<>> =>
    /\ fnArgs.function = "calculateSimilarity" =>
         fnResult[1] = calculateSimilarity(fnArgs.b, fnArgs.a)
    /\ fnArgs.function = "calculateLevenshteinDistance" =>
         fnResult[1] = calculateLevenshteinDistance(fnArgs.b, fnArgs.a)

\* the similarity of two strings of different lengths, neither a prefix of the
\* other, was computed
C19_Witness ==
  /\ fnResult # <<>>
  /\ fnArgs.function = "calculateSimilarity"
  /\ 0 < Len(fnArgs.a)
  /\ Len(fnArgs.a) < Len(fnArgs.b)
  /\ SubSeq(fnArgs.b, 1, Len(fnArgs.a)) # fnArgs.a
  /\ fnResult[1].n > 0

(***************************************************************************)
(* Properties of the order among equal confidences.                        *)
(***************************************************************************)
\* the first position of the pool that holds the candidate
FirstInPool(candidate) ==
  CHOOSE k \in 1..Len(fnArgs.candidates) :
    /\ fnArgs.candidates[k] = candidate
    /\ \A j \in 1..(k - 1) : fnArgs.candidates[j] # candidate

\* C20 as stated: of two returned matches with the same confidence, the one whose
\* candidate comes earlier in the pool comes earlier in the result, whichever
\* strategies produced them
C20_TiesInPoolOrder ==
  fnResult # <<>> =>
    LET returned == Returned
    IN  \A k, l \in 1..Len(returned) :
          (k < l /\ returned[k].confidence = returned[l].confidence) =>
            FirstInPool(returned[k].candidate) < FirstInPool(returned[l].candidate)

(***************************************************************************)
(* Properties of reconciliation.                                           *)
(***************************************************************************)
\* the place of a method in the fixed order of the layers
StrategyRank(method) ==
  CASE method = "exact_after_normalization" -> 1
    [] method = "high_similarity" -> 2
    [] method = "token_match" -> 3
    [] method = "partial_match" -> 4

\* C21: of the matches that several strategies produce for one candidate with equal
\* confidence, reconciliation keeps the one of the earliest strategy in the order
\* exact, high-similarity, token, partial, and so does the result
C21_EarliestStrategyWinsTies ==
  fnResult # <<>> =>
    LET produced == AllProduced
        reconciled ==
          reconciledMatches(fnArgs.original, fnArgs.candidates, fnArgs.config)
        EarliestOfTies(match) ==
          \A m \in 1..Len(produced) :
            (/\ produced[m].candidate = match.candidate
             /\ produced[m].confidence = match.confidence)
              => StrategyRank(match.method) <= StrategyRank(produced[m].method)
    IN  /\ \A k \in 1..Len(reconciled) : EarliestOfTies(reconciled[k])
        /\ \A k \in 1..Len(Returned) : EarliestOfTies(Returned[k])

\* a returned match that is not an exact one, for a candidate for which a later
\* strategy produced the same confidence
C21_Witness ==
  /\ fnResult # <<>>
  /\ LET produced == AllProduced
     IN  \E k \in 1..Len(Returned) :
           /\ Returned[k].method # "exact_after_normalization"
           /\ \E m \in 1..Len(produced) :
                /\ produced[m].candidate = Returned[k].candidate
                /\ produced[m].confidence = Returned[k].confidence
                /\ StrategyRank(produced[m].method) > StrategyRank(Returned[k].method)

(***************************************************************************)
(* Properties of isLikelyGeographicVariant.                                *)
(***************************************************************************)
\* the tokens that occur in exactly one of the two names
OneSidedTokens(name1, name2) ==
  (TokenSet(name1) \ TokenSet(name2)) \cup (TokenSet(name2) \ TokenSet(name1))

\* C22 as stated: isLikelyGeographicVariant is true iff every token that occurs in
\* exactly one of the two token sets is a geographic term, and so false as soon as
\* a one-sided token of either side is not one
C22_GeographicIffAllOneSided ==
  fnResult # <<>> =>
    (fnResult[1] <=>
       \A token \in OneSidedTokens(fnArgs.name1, fnArgs.name2) :
         token \in GEOGRAPHIC_TERMS)

(***************************************************************************)
(* Properties of names that normalize to the empty string.                 *)
(***************************************************************************)
NormalizesToEmpty(name) == normalizeCompanyName(name, config) = <<>>

\* C23 as stated: of two distinct raw names that both normalize to the empty
\* string, findAllMatches returns neither as a match of the other, and no group of
\* findDuplicates holds both
C23_EmptyFormsNeverMatch ==
  InPass =>
    \A k, l \in 1..Len(uniqueCompanies) :
      (/\ k # l
       /\ NormalizesToEmpty(uniqueCompanies[k])
       /\ NormalizesToEmpty(uniqueCompanies[l]))
        => /\ MatchesFor(findAllMatches(uniqueCompanies[k], uniqueCompanies, config),
                         uniqueCompanies[l]) = {}
           /\ \A a \in 1..Len(groups) :
                ~(/\ groups[a].original = uniqueCompanies[k]
                  /\ uniqueCompanies[l] \in Candidates(groups[a]))

(***************************************************************************)
(* Properties of the characters and the words of a normalized name.        *)
(***************************************************************************)
\* lower-case letters, digits and spaces only, no space first or last and no two
\* spaces in a row
CleanText(text) ==
  /\ \A k \in 1..Len(text) : text[k] \in LowerLetters \cup Digits \cup {" "}
  /\ text # <<>> => text[1] # " " /\ text[Len(text)] # " "
  /\ \A k \in 1..(Len(text) - 1) : ~(text[k] = " " /\ text[k + 1] = " ")

\* C24 as stated: the output of normalizeCompanyName holds only lower-case letters,
\* digits and single spaces, no leading or trailing space, and no digit when
\* removeNumbers is set
C24_OutputAlphabet ==
  fnResult # <<>> =>
    /\ CleanText(fnResult[1])
    /\ fnArgs.config.removeNumbers => Range(fnResult[1]) \cap Digits = {}

IsSuffixWord(word) == word \in BUSINESS_SUFFIXES

\* the words of the name as they are before the suffix step
WordsBeforeSuffixStep ==
  split(normalizeCompanyName(fnArgs.name, [fnArgs.config EXCEPT !.removeSuffixes = FALSE]))

\* words without the entries at the positions in dropped
RECURSIVE WithoutPositions(_, _, _)
WithoutPositions(words, dropped, k) ==
  IF k > Len(words) THEN <<>>
  ELSE (IF k \in dropped THEN <<>> ELSE <<words[k]>>)
         \o WithoutPositions(words, dropped, k + 1)

\* C25: with removeSuffixes, no word of the output of normalizeCompanyName is a
\* suffix word, a suffix next to punctuation or digits included, and every other
\* word, one that only contains a suffix too, is kept in its place
C25_SuffixWordsRemovedWhole ==
  (fnResult # <<>> /\ fnArgs.config.removeSuffixes) =>
    LET before == WordsBeforeSuffixStep
        suffixAt == {k \in 1..Len(before) : IsSuffixWord(before[k])}
        after == split(fnResult[1])
    IN  /\ \A k \in 1..Len(after) : ~IsSuffixWord(after[k])
        /\ fnResult[1] # <<>> => after = WithoutPositions(before, suffixAt, 1)
        /\ fnResult[1] = <<>> => \A k \in 1..Len(before) : IsSuffixWord(before[k]) \/ before[k] = <<>>

\* a suffix word that stood next to a punctuation mark was removed and the word
\* before it was kept
C25_Witness ==
  /\ fnResult # <<>>
  /\ fnArgs.config.removeSuffixes
  /\ ~fnArgs.config.removeNumbers
  /\ \E k \in 1..(Len(fnArgs.name) - 2) :
       /\ fnArgs.name[k] = "!"
       /\ IsSuffixWord(SubSeq(fnArgs.name, k + 1, k + 2))
  /\ fnResult[1] # <<>>
  /\ Len(split(fnResult[1])) < Len(WordsBeforeSuffixStep)

(***************************************************************************)
(* Properties of calculateTokenOverlap.                                    *)
(***************************************************************************)
\* the words of a text: its longest runs of characters other than the space
Words(text) ==
  {SubSeq(text, from, to) : <<from, to>> \in
     {pair \in (1..Len(text)) \X (1..Len(text)) :
        /\ pair[1] <= pair[2]
        /\ \A k \in pair[1]..pair[2] : text[k] # " "
        /\ pair[1] = 1 \/ text[pair[1] - 1] = " "
        /\ pair[2] = Len(text) \/ text[pair[2] + 1] = " "}}

\* C26: calculateTokenOverlap is the Jaccard index of the two sets of non-empty
\* space-delimited words, 0 when both sets are empty; the order of the words and
\* their repetition do not count, so the same words in another order score 1
C26_OverlapIsJaccard ==
  fnResult # <<>> =>
    LET words1 == Words(fnArgs.name1)
        words2 == Words(fnArgs.name2)
    IN  /\ fnResult[1].d # 0
        /\ fnResult[1].n * Cardinality(words1 \cup words2)
             = Cardinality(words1 \cap words2) * fnResult[1].d
        /\ words1 \cup words2 = {} => fnResult[1].n = 0
        /\ (words1 = words2 /\ words1 # {}) => fnResult[1].n = fnResult[1].d

\* the overlap of two different texts that hold the same two words was computed
C26_Witness ==
  /\ fnResult # <<>>
  /\ fnArgs.name1 # fnArgs.name2
  /\ Words(fnArgs.name1) = Words(fnArgs.name2)
  /\ Cardinality(Words(fnArgs.name1)) = 2

(***************************************************************************)
(* Properties of the match relation.                                       *)
(***************************************************************************)
\* the match with the two names in each other's place
Mirrored(match) ==
  [original |-> match.candidate, candidate |-> match.original,
   confidence |-> match.confidence, method |-> match.method,
   normalizedOriginal |-> match.normalizedCandidate,
   normalizedCandidate |-> match.normalizedOriginal]

\* the pool holds the query too
QueryInPool == fnArgs.original \in Range(fnArgs.candidates)

\* C27: before truncation the match relation is symmetric: for a query a and
\* another raw name b of the pool that holds both, b is among the reconciled,
\* filtered matches of a iff a is among those of b, with the same confidence and
\* the same method
C27_MatchRelationSymmetric ==
  (fnResult # <<>> /\ QueryInPool) =>
    LET forward ==
          Range(filteredMatches(fnArgs.original, fnArgs.candidates, fnArgs.config))
    IN  \A b \in Range(fnArgs.candidates) \ {fnArgs.original} :
          LET backward == Range(filteredMatches(b, fnArgs.candidates, fnArgs.config))
          IN  /\ \A m \in forward : m.candidate = b => Mirrored(m) \in backward
              /\ \A m \in backward :
                   m.candidate = fnArgs.original => Mirrored(m) \in forward

\* the query is in the pool and has a token match that truncation cut from the
\* result
C27_Witness ==
  /\ fnResult # <<>>
  /\ QueryInPool
  /\ \E m \in Range(filteredMatches(fnArgs.original, fnArgs.candidates, fnArgs.config)) :
       /\ m.method = "token_match"
       /\ MatchesFor(Returned, m.candidate) = {}

(***************************************************************************)
(* Properties of the claimed set and of the list of groups.                *)
(***************************************************************************)
\* C28: at every step of the findDuplicates pass the claimed set is exactly the
\* representatives of the groups emitted so far and the candidates those groups
\* list; a candidate that matched a representative and was cut by truncation is
\* not claimed
C28_ClaimedIsGroupsContent ==
  processed = Representatives \cup UNION {Candidates(groups[a]) : a \in 1..Len(groups)}

\* a name that passed the filter for an earlier representative and was cut from
\* its group by truncation is the representative of a later group
C28_Witness ==
  \E a, b \in 1..Len(groups) :
    /\ a < b
    /\ groups[b].original \notin Candidates(groups[a])
    /\ MatchesFor(filteredMatches(groups[a].original, uniqueCompanies, config),
                  groups[b].original) # {}

(***************************************************************************)
(* Properties that relate the partial layer to the high-similarity layer.  *)
(***************************************************************************)
\* score < threshold and threshold1 >= threshold2, as JavaScript compares numbers
ScoreBelow(score, threshold) ==
  score.d # 0 /\ ~threshold.nan /\ score.n * 1000 < threshold.v * score.d

ThresholdAtLeast(threshold1, threshold2) ==
  ~threshold1.nan /\ ~threshold2.nan /\ threshold1.v >= threshold2.v

\* len(shorter) / len(longer) of the two normalized forms of a match
LengthRatio(match) ==
  [n |-> Min2(Len(match.normalizedOriginal), Len(match.normalizedCandidate)),
   d |-> Max2(Len(match.normalizedOriginal), Len(match.normalizedCandidate))]

\* C29 as stated: for a pair of which the shorter normalized form is a substring of
\* the longer one the partial-match confidence is the high-similarity score; a
\* returned match is a partial_match only if its unrounded confidence is strictly
\* below highSimilarityThreshold, and none is returned when partialMatchThreshold
\* is at least highSimilarityThreshold
C29_PartialOnlyBelowHighSimilarity ==
  \A a \in 1..Len(groups) :
    \A k \in 1..Len(groups[a].duplicates) :
      LET match == groups[a].duplicates[k]
          score == calculateSimilarity(match.normalizedOriginal, match.normalizedCandidate)
      IN  match.method = "partial_match" =>
            /\ score = LengthRatio(match)
            /\ ScoreBelow(LengthRatio(match), config.highSimilarityThreshold)
            /\ ~ThresholdAtLeast(config.partialMatchThreshold,
                                 config.highSimilarityThreshold)

\* C30: for N unique non-blank names findDuplicates emits at most N - 1 groups and
\* none when N < 2; every group has at least one duplicate and totalMatches is the
\* length of its duplicates; the groups are in the input order of their
\* representatives; the returned value carries these groups and N
C30_GroupCountShapeAndOrder ==
  /\ Len(uniqueCompanies) < 2 => groups = <<>>
  /\ Len(uniqueCompanies) >= 2 => Len(groups) <= Len(uniqueCompanies) - 1
  /\ \A a \in 1..Len(groups) :
       /\ Len(groups[a].duplicates) >= 1
       /\ groups[a].totalMatches = Len(groups[a].duplicates)
  /\ \A a, b \in 1..Len(groups) :
       a < b =>
         \E p, q \in 1..Len(uniqueCompanies) :
           /\ p < q
           /\ uniqueCompanies[p] = groups[a].original
           /\ uniqueCompanies[q] = groups[b].original
  /\ result # <<>> =>
       /\ result[1].duplicateGroups = groups
       /\ result[1].totalCompanies = Len(uniqueCompanies)

\* a call returned N - 1 groups of N >= 3 unique names
C30_Witness ==
  /\ result # <<>>
  /\ Len(uniqueCompanies) >= 3
  /\ Len(result[1].duplicateGroups) = Len(uniqueCompanies) - 1

\* a call with a single unique non-blank name returned no group
C30_WitnessSingle ==
  /\ result # <<>>
  /\ Len(uniqueCompanies) = 1
  /\ Len(companies) >= 2
  /\ result[1].duplicateGroups = <<>>

====
